---- MODULE Spec2Model ----
(***************************************************************************)
(* Conversation / visualization orchestration of the Badevel Living Lab    *)
(* assistant.  The repository ships two front ends for the same backend:   *)
(* the static page (static/js/chat.js with the NeoVis graph script) and    *)
(* the Vue view (HomeView with NeoVisComponent).  A page runs one of them; *)
(* `impl` says which.  The browser event loop is modelled as it runs:      *)
(* one handler at a time (pc), micro-tasks before the next event.          *)
(***************************************************************************)
EXTENDS Integers, Sequences, FiniteSets, TLC

\* ------------------------------------------------------------------ bounds
\* Number of chat turns (accepted submits) explored.
MaxTurns == 2

\* ------------------------------------------------------------ JS values
NULL == "<null>"
UNDEF == "<undefined>"
\* A text is a sequence of tokens; a missing text field reads as undefined.
UndefText == <<UNDEF>>

\* Faulty variant: only null and undefined count as no query (a `!== null` test).
TruthyNotNull(v) == v \notin {NULL, UNDEF}

\* JavaScript truthiness of a string-or-null value.
Truthy(v) == v \notin {NULL, UNDEF, ""}

\* ------------------------------------------------------------ text helpers
IsSpace(c) == c \in {" ", "\n"}

RECURSIVE TrimLeft(_)
TrimLeft(s) == IF s # <<>> /\ IsSpace(Head(s)) THEN TrimLeft(Tail(s)) ELSE s

RECURSIVE TrimRight(_)
TrimRight(s) ==
    IF s # <<>> /\ IsSpace(s[Len(s)])
    THEN TrimRight(SubSeq(s, 1, Len(s) - 1))
    ELSE s

\* String.prototype.trim
Trim(s) == TrimRight(TrimLeft(s))

\* The code fence of a markdown code block, one token.
Fence == "[fence]"
IsWord(c) == ~IsSpace(c) /\ c \notin {Fence, "<br>"}

\* content.replace(/\n/g, '<br>')
ReplaceNewlines(s) == [i \in 1..Len(s) |-> IF s[i] = "\n" THEN "<br>" ELSE s[i]]

\* Index of the first fence of s at or after position i, 0 if none.
RECURSIVE FindFence(_, _)
FindFence(s, i) ==
    IF i > Len(s) THEN 0
    ELSE IF s[i] = Fence THEN i
    ELSE FindFence(s, i + 1)

\* Length of the run of word tokens of s starting at i and ending before j: (\w*).
RECURSIVE WordRun(_, _, _)
WordRun(s, i, j) == IF i < j /\ IsWord(s[i]) THEN 1 + WordRun(s, i + 1, j) ELSE 0

\* processed.replace(/FENCE(\w*)([\s\S]*?)FENCE/g, ...), FENCE the three backquotes
RECURSIVE ReplaceCodeBlocks(_)
ReplaceCodeBlocks(s) ==
    LET i == FindFence(s, 1)
        j == IF i = 0 THEN 0 ELSE FindFence(s, i + 1)
    IN  IF i = 0 \/ j = 0 THEN s
        ELSE LET n == WordRun(s, i + 1, j)
                 language == SubSeq(s, i + 1, i + n)
                 code == SubSeq(s, i + n + 1, j - 1)
             IN  SubSeq(s, 1, i - 1)
                   \o <<"<pre class=code-block ">> \o language \o <<"><code>">>
                   \o Trim(code) \o <<"</code></pre>">>
                   \o ReplaceCodeBlocks(SubSeq(s, j + 1, Len(s)))

\* chat.js processMessageContent: the HTML put into the message element.
processMessageContent(content) == ReplaceCodeBlocks(ReplaceNewlines(content))

\* ------------------------------------------------------------ inputs
\* What the user types into the input box.
Inputs == {<<>>, <<" ">>, <<" ", "a", " ">>}
\* The data-query / example texts of the suggestion buttons.
Suggestions == {<<"a">>}
\* Backend reply texts.
Texts == {<<"r", "\n", Fence, "c", " ", "x", " ", Fence>>}
ThreadIds == {"t1", "t2", NULL}
Queries == {NULL, "", "q1", "q2"}

Reply(kind, status, reason, response, thread_id, cypher_query) ==
    [kind |-> kind, status |-> status, reason |-> reason, response |-> response,
     thread_id |-> thread_id, cypher_query |-> cypher_query]

\* HTTP 2xx with a JSON body {response, thread_id, cypher_query}.
OkReplies ==
    {Reply("ok", "200", <<>>, t, th, q) : t \in Texts, th \in ThreadIds, q \in Queries}
\* HTTP 2xx whose body lacks the response field.
MalformedReplies == {Reply("ok", "200", <<>>, UndefText, "t2", "q2")}
\* Non-2xx status, a rejected network call, a body that is not JSON.
FailReplies ==
    { Reply("http", "500", <<>>, UndefText, UNDEF, UNDEF),
      Reply("network", "0", <<"Failed to fetch">>, UndefText, UNDEF, UNDEF),
      Reply("network", "0", <<>>, UndefText, UNDEF, UNDEF),
      Reply("badjson", "200", <<"Unexpected token">>, UndefText, UNDEF, UNDEF) }
Replies == OkReplies \cup MalformedReplies \cup FailReplies

\* What the handlers have not received yet.
NoReply == Reply("none", "0", <<>>, UndefText, UNDEF, UNDEF)

VARIABLES
    impl,          \* "static" (chat.js page) or "vue" (HomeView)
    pc,            \* position of the running submit handler, "idle" between handlers
    message,       \* the handler's local `message`
    userInput,     \* the input buffer (userInput.value / this.userInput)
    chatLog,       \* chat container children / this.chatMessages
    isProcessing,  \* the in-flight flag
    threadId,      \* the stored thread id
    inflight,      \* outstanding POST /api/chat calls
    turns,         \* accepted submits so far (also the clock behind Date.now())
    microtasks,    \* pending micro-tasks (promise continuations, Vue flush and nextTick)
    neoVisLoaded,  \* static page: window.NeoVis is present
    vizState,      \* static page: {viz, isInitialized, lastQuery}
    vizPlaceholder,\* static page: the placeholder element: "default", "hidden", "error"
    vizContainer,  \* static page: the container: shown, and what the network was asked to draw
    initAwait,     \* static page: query of the visualizeGraph call awaiting viz.render()
    hasVisualizedGraph, currentCypherQuery, lastResponseDebug, visualizationError,
                   \* Vue view: visualization state of HomeView
    neovis,        \* Vue view: the NeoVisComponent instance
    hEvent,        \* history: the last event handled, with the reply it received
    hCalls,        \* history: queries the render operation was invoked with since that event
    hSubmit,       \* history: input buffer and messages as the last accepted submit found them
    hRequested,    \* history: the query of the latest visualization request
    hEmits         \* history: events NeoVisComponent emitted since the last event handled

VARIABLES
    sdkEnv,        \* what the page has loaded of the speech SDK, as the presence test sees it
    speechConfig,  \* static page: window.speechConfig: "ok", "missing", "notoken", "error"
    speechState,   \* speechState of speech.js / the speech fields of HomeView's data()
    speechUi,      \* static page: the mic button and the status line
    timers,        \* static page: the pending setTimeout calls, by the delay left
    recognizers,   \* the SpeechRecognizer objects constructed so far, by handle
    sdkCalls,      \* start / stop calls on recognizers whose callback is outstanding
    tokenCalls,    \* Vue view: outstanding GET /api/speech-token calls, by caller
    hSpeech        \* history: the last speech operation, what it raised, what it found

speechVars == <<sdkEnv, speechConfig, speechState, speechUi, timers, recognizers, sdkCalls,
                tokenCalls, hSpeech>>

chatVars == <<pc, message, userInput, chatLog, isProcessing, threadId, inflight, turns>>
staticVizVars == <<neoVisLoaded, vizState, vizPlaceholder, vizContainer, initAwait>>
vueVizVars == <<hasVisualizedGraph, currentCypherQuery, lastResponseDebug,
                visualizationError, neovis>>
vars == <<impl, chatVars, microtasks, staticVizVars, vueVizVars, hEvent, hCalls, hSubmit,
          hRequested, hEmits, speechVars>>

Static == impl = "static"
Vue == impl = "vue"
\* NeoVisComponent is in play: inside HomeView, or on its own under any parent.
Component == impl \in {"vue", "neovis"}

\* Between handlers, with the micro-task queue drained: the next event may be taken.
Quiescent == pc = "idle" /\ microtasks = <<>>

\* What the visualization adapter displays and records: the drawn content, the
\* recorded query, render in progress, error on display.
AdapterView ==
    IF Static
    THEN [content |-> vizContainer.network, query |-> vizState.lastQuery,
          loading |-> initAwait # NULL, error |-> vizPlaceholder = "error"]
    ELSE [content |-> neovis.content, query |-> neovis.query,
          loading |-> neovis.loading, error |-> neovis.error # NULL]

\* An event handled, the reply it delivered, and the adapter as the event found it.
Event(name, r) == [name |-> name, reply |-> r, before |-> AdapterView]

\* The Messages of the log, oldest first: the placeholder is not a Message.
Log ==
    LET shown == SelectSeq(chatLog, LAMBDA e : e.role # "thinking")
    IN  [i \in 1..Len(shown) |-> [role |-> shown[i].role, content |-> shown[i].content]]

\* The "thinking" placeholder is on screen: the loading element of chat.js,
\* the v-if="isProcessing" element of HomeView.
Thinking ==
    IF Static THEN \E i \in 1..Len(chatLog) : chatLog[i].role = "thinking"
    ELSE isProcessing

\* ------------------------------------------------------------ initial state
EmptyDebug == [query |-> UNDEF, containerExists |-> FALSE]

\* Chat and visualization after construction.
ChatInit ==
    /\ impl \in {"static", "vue", "neovis"}
    /\ pc = "idle"
    /\ message = <<>>
    /\ userInput = <<>>
    /\ chatLog = <<>>
    /\ isProcessing = FALSE
    /\ threadId = NULL
    /\ inflight = <<>>
    /\ turns = 0
    /\ microtasks = <<>>
    /\ neoVisLoaded \in (IF impl = "static" THEN BOOLEAN ELSE {FALSE})
    /\ vizState = [viz |-> NULL, isInitialized |-> FALSE, lastQuery |-> NULL]
    /\ vizPlaceholder = "default"
    /\ vizContainer = [shown |-> FALSE, network |-> "none"]
    /\ initAwait = NULL
    /\ hasVisualizedGraph = FALSE
    /\ currentCypherQuery = NULL
    /\ lastResponseDebug = NoReply
    /\ visualizationError = NULL
    /\ neovis = [mounted |-> FALSE, query |-> UNDEF, loading |-> FALSE, error |-> NULL,
                 debugInfo |-> EmptyDebug, content |-> NULL]
    /\ hEvent = Event("load", NoReply)
    /\ hCalls = <<>>
    /\ hSubmit = [raw |-> <<>>, log |-> <<>>]
    /\ hRequested = NULL
    /\ hEmits = <<>>

\* The status line as the page is served, the texts the scripts write into it.
StatusInitial == "<initial>"
StatusLoading == "Chargement du SDK..."
StatusReady == "Cliquez sur le microphone pour parler"
StatusGiveUp == "SDK non disponible. Resolution vocale impossible."
StatusUnavailable == "Speech recognition unavailable"
StatusListening == "Ecoute en cours..."
StatusStartError == "Erreur de reconnaissance vocale"
StatusError == "Erreur: "

NoSdk == [hasMicrosoftSDK |-> FALSE, hasGlobalSDK |-> FALSE, FromMock |-> FALSE,
          mockFirst |-> FALSE]

\* recognizer: null, handles being numbered from 1.
NoRecognizer == 0

\* speechState / the speech fields of data(), as declared.
SpeechState0 ==
    [recognizer |-> NoRecognizer, isRecording |-> FALSE, sdkLoaded |-> FALSE,
     loadingTimeout |-> NULL, speechEnabled |-> TRUE, speechToken |-> NULL,
     destroyed |-> FALSE]

NoOp == [name |-> "none", raised |-> FALSE, lastOp |-> "none", text |-> <<>>,
         buffer |-> <<>>, twice |-> FALSE, failed |-> FALSE]

\* Speech before anything ran, the environment left open.
SpeechInitState ==
    /\ speechState = SpeechState0
    /\ speechUi = [disabled |-> FALSE, recording |-> FALSE, listeners |-> 0,
                   status |-> StatusInitial, domReady |-> FALSE, mockReady |-> FALSE]
    /\ timers = [checkIn |-> -1, giveUpIn |-> -1, gaveUp |-> FALSE]
    /\ recognizers = <<>>
    /\ sdkCalls = <<>>
    /\ hSpeech = NoOp

\* The chat pages with speech left out of the picture.
Init ==
    /\ ChatInit
    /\ SpeechInitState
    /\ sdkEnv = NoSdk
    /\ speechConfig = "ok"
    /\ tokenCalls = <<>>

\* ------------------------------------------------------------ micro-tasks
Task(kind, query) == [kind |-> kind, query |-> query]

\* Vue queues one flush of its watchers per tick, however many fields changed.
QueueFlush(mt) ==
    IF \E i \in 1..Len(mt) : mt[i].kind = "flush" THEN mt ELSE Append(mt, Task("flush", NULL))

\* ------------------------------------------------------------ static page: graph
\* Faulty variant: a query equal to the recorded one clears the network and does
\* not draw it again.
VizRestClearsRepeated(query) ==
    /\ vizState' = [vizState EXCEPT !.lastQuery = query]
    /\ vizPlaceholder' = "hidden"
    /\ vizContainer' = [shown |-> TRUE,
                        network |-> IF vizState.viz = NULL THEN vizContainer.network
                                    ELSE IF vizState.lastQuery = query THEN "none"
                                    ELSE query]

\* visualizeGraph after its await: store the query, show the container, redraw.
\* With no viz object clearNetwork throws and the catch only logs.
VizRest(query) ==
    /\ vizState' = [vizState EXCEPT !.lastQuery = query]
    /\ vizPlaceholder' = "hidden"
    /\ vizContainer' = [shown |-> TRUE,
                        network |-> IF vizState.viz = NULL THEN vizContainer.network
                                    ELSE query]

\* visualizeGraph(query) up to its first suspension, initializeNeoVis included.
visualizeGraph(query) ==
    /\ hCalls' = <<query>>
    /\ hRequested' = query
    /\ neoVisLoaded' = neoVisLoaded
    /\ IF ~vizState.isInitialized
       THEN IF ~neoVisLoaded
            THEN \* 'NeoVis.js not loaded' is caught inside initializeNeoVis
                 /\ vizPlaceholder' = "error"
                 /\ microtasks' = Append(microtasks, Task("vizResume", query))
                 /\ UNCHANGED <<vizState, vizContainer, initAwait>>
            ELSE \* the viz object is built with its initialCypher; await viz.render()
                 /\ vizState' = [vizState EXCEPT !.viz = "NeoVis", !.isInitialized = TRUE]
                 /\ vizContainer' = [vizContainer EXCEPT !.network = "initial"]
                 /\ initAwait' = query
                 /\ UNCHANGED <<vizPlaceholder, microtasks>>
       ELSE /\ VizRest(query)
            /\ UNCHANGED <<initAwait, microtasks>>

\* viz.render() of initializeNeoVis settles; the awaiting visualizeGraph resumes next.
InitRenderDone(ok) ==
    /\ UNCHANGED <<hSubmit, hRequested>>
    /\ hEmits' = <<>>
    /\ Static /\ Quiescent /\ initAwait # NULL
    /\ vizPlaceholder' = IF ok THEN "hidden" ELSE "error"
    /\ vizContainer' = IF ok THEN [vizContainer EXCEPT !.shown = TRUE] ELSE vizContainer
    /\ microtasks' = Append(microtasks, Task("vizResume", initAwait))
    /\ initAwait' = NULL
    /\ hEvent' = Event("initRender", NoReply)
    /\ hCalls' = <<>>
    /\ UNCHANGED <<impl, chatVars, neoVisLoaded, vizState, vueVizVars>>

\* The continuation of visualizeGraph behind `await initializeNeoVis()`.
VizResume ==
    /\ UNCHANGED <<hSubmit, hRequested, hEmits>>
    /\ Static /\ pc = "idle" /\ microtasks # <<>> /\ Head(microtasks).kind = "vizResume"
    /\ VizRest(Head(microtasks).query)
    /\ microtasks' = Tail(microtasks)
    /\ UNCHANGED <<impl, chatVars, neoVisLoaded, initAwait, vueVizVars, hEvent, hCalls>>

\* ------------------------------------------------------------ Vue view: graph
\* Faulty variant: renderGraph without its empty-query guard.
renderGraphUnguarded(c) == [c EXCEPT !.loading = TRUE, !.error = NULL, !.debugInfo = EmptyDebug]

\* NeoVisComponent.renderGraph, up to its $nextTick.
renderGraph(c) ==
    IF ~Truthy(c.query)
    THEN [c EXCEPT !.error = "No query provided"]
    ELSE [c EXCEPT !.loading = TRUE, !.error = NULL, !.debugInfo = EmptyDebug]

\* The $nextTick callbacks one renderGraph call queues.
RenderTicks(c) == IF Truthy(c.query) THEN <<Task("tick", c.query)>> ELSE <<>>

\* The component exists in the template: v-if="hasVisualizedGraph && currentCypherQuery".
NeoVisShown == hasVisualizedGraph /\ Truthy(currentCypherQuery)

\* Vue's flush after a handler: HomeView re-renders; NeoVisComponent is created
\* (its immediate query watcher runs, then mounted()) or its query prop is updated
\* (the watcher runs if the value changed).
VueFlush ==
    /\ UNCHANGED <<hSubmit, hRequested, hEmits>>
    /\ Vue /\ pc = "idle" /\ microtasks # <<>> /\ Head(microtasks).kind = "flush"
    /\ IF ~neovis.mounted /\ NeoVisShown
       THEN LET created == [neovis EXCEPT !.mounted = TRUE, !.query = currentCypherQuery]
                watched == renderGraph(created)
            IN  /\ neovis' = renderGraph(watched)
                /\ microtasks' = Tail(microtasks) \o RenderTicks(created) \o RenderTicks(watched)
                /\ hCalls' = hCalls \o <<created.query, watched.query>>
       ELSE IF neovis.mounted /\ neovis.query # currentCypherQuery
       THEN LET updated == [neovis EXCEPT !.query = currentCypherQuery]
            IN  /\ neovis' = renderGraph(updated)
                /\ microtasks' = Tail(microtasks) \o RenderTicks(updated)
                /\ hCalls' = Append(hCalls, updated.query)
       ELSE /\ microtasks' = Tail(microtasks)
            /\ UNCHANGED <<neovis, hCalls>>
    /\ UNCHANGED <<impl, chatVars, staticVizVars, hasVisualizedGraph, currentCypherQuery,
                   lastResponseDebug, visualizationError, hEvent>>

\* Faulty variant: the callback forgets to clear the loading flag.
renderTickKeepsLoading(c) ==
    IF c.mounted THEN [c EXCEPT !.content = c.query] ELSE [c EXCEPT !.error = "Error"]

\* The $nextTick callback of renderGraph on component c: createSimpleVisualization
\* writes the query into the container; with no container the catch block reports.
renderTick(c) ==
    LET dbg == [query |-> c.query, containerExists |-> c.mounted]
    IN  IF c.mounted
        THEN [c EXCEPT !.debugInfo = dbg, !.content = c.query, !.loading = FALSE]
        ELSE [c EXCEPT !.debugInfo = dbg, !.loading = FALSE,
                 !.error = "Error rendering graph: Visualization container element not found"]

\* What that callback emits.
tickSignal(c) == IF c.mounted THEN "visualization-completed" ELSE "visualization-error"

\* The $nextTick callback runs; HomeView hears the event it emits.
VueTick ==
    /\ UNCHANGED <<hSubmit, hRequested>>
    /\ Component /\ pc = "idle" /\ microtasks # <<>> /\ Head(microtasks).kind = "tick"
    /\ neovis' = renderTick(neovis)
    /\ hEmits' = Append(hEmits, tickSignal(neovis))
    /\ visualizationError' =
           IF ~Vue THEN visualizationError
           ELSE IF neovis.mounted THEN NULL
           ELSE "Visualization container element not found"
    /\ microtasks' = IF Vue THEN QueueFlush(Tail(microtasks)) ELSE Tail(microtasks)
    /\ UNCHANGED <<impl, chatVars, staticVizVars, hasVisualizedGraph, currentCypherQuery,
                   lastResponseDebug, hEvent, hCalls>>

\* Faulty variant: rerender only retries after an error.
rerenderIfError(c) == IF c.error # NULL THEN renderGraph(c) ELSE c

\* NeoVisComponent.rerender.
rerender(c) == renderGraph(c)

\* The retry button: HomeView.rerenderGraph calls rerender() on the component, if the
\* ref is there. The button is in the template while hasVisualizedGraph holds.
rerenderGraph ==
    /\ UNCHANGED <<hSubmit, hRequested>>
    /\ Component /\ Quiescent
    /\ Vue => hasVisualizedGraph
    /\ IF neovis.mounted
       THEN /\ neovis' = rerender(neovis)
            /\ microtasks' = microtasks \o RenderTicks(neovis)
            /\ hCalls' = <<neovis.query>>
       ELSE /\ hCalls' = <<>>
            /\ UNCHANGED <<neovis, microtasks>>
    /\ hEvent' = Event("rerender", NoReply)
    /\ hEmits' = <<>>
    /\ UNCHANGED <<impl, chatVars, staticVizVars, hasVisualizedGraph, currentCypherQuery,
                   lastResponseDebug, visualizationError>>

\* ------------------------------------------------------------ chat: helpers
\* chat.js addMessageToChat: a message element holding the processed content.
addMessageToChat(log, role, content) ==
    Append(log, [role |-> role, content |-> content,
                 html |-> processMessageContent(content), id |-> 0])

\* chat.js addThinkingMessage: the loading element, id 'thinking-' + Date.now().
addThinkingMessage(log, id) ==
    Append(log, [role |-> "thinking", content |-> <<>>, html |-> <<"loading">>, id |-> id])

\* Faulty variant: the placeholder is never removed.
keepThinkingMessage(log, id) == log

\* Faulty variant: the oldest element is removed instead of the placeholder.
removeOldestMessage(log, id) == IF log = <<>> THEN log ELSE Tail(log)

\* chat.js removeThinkingMessage: remove the element with that id, if any.
removeThinkingMessage(log, id) ==
    SelectSeq(log, LAMBDA e : ~(e.role = "thinking" /\ e.id = id))

\* HomeView: this.chatMessages.push({role, content}).
pushMessage(log, role, content) == Append(log, [role |-> role, content |-> content])

\* Faulty variant: the guard forgets the in-flight flag.
RejectsEmptyOnly(input, processing) == Trim(input) = <<>>

\* Faulty variant: the guard tests the raw input, not the trimmed one.
RejectsUntrimmed(input, processing) == input = <<>> \/ processing

\* Faulty variant: the guard also refuses while the mic control is disabled.
RejectsWithoutSpeech(input, processing) ==
    \/ Trim(input) = <<>> \/ processing
    \/ IF impl = "static" THEN speechUi.disabled ELSE ~speechState.speechEnabled

\* Faulty variant: the guard lets every submit through.
RejectsNothing(input, processing) == FALSE

\* The guard of handleChatSubmit / sendMessage: empty message or already processing.
Rejects(input, processing) == Trim(input) = <<>> \/ processing

\* Faulty variant: the placeholder is added before the flag is set.
SubmitOrderThinkingFirst ==
    IF Static THEN <<"clear", "user", "think", "flag", "post">>
    ELSE <<"clear", "user", "flag", "post">>

\* The statements of an accepted submit, in program order, up to the network call.
SubmitOrder ==
    IF Static THEN <<"clear", "user", "flag", "think", "post">>
    ELSE <<"clear", "user", "flag", "post">>

\* The statement after p.
NextPc(p) ==
    LET i == CHOOSE k \in 1..Len(SubmitOrder) : SubmitOrder[k] = p
    IN  IF i = Len(SubmitOrder) THEN "idle" ELSE SubmitOrder[i + 1]

\* Entry of the submit handler with the input buffer holding `input`.
HandlerEntry(input) ==
    IF Rejects(input, isProcessing)
    THEN pc' = "idle" /\ message' = message /\ hSubmit' = hSubmit
    ELSE /\ hSubmit' = [raw |-> input, log |-> Log]
         /\ pc' = SubmitOrder[1]
         /\ message' = IF Static THEN Trim(input) ELSE message

\* ------------------------------------------------------------ chat: user events
\* The user edits the input box.
TypeInput(t) ==
    /\ UNCHANGED <<hSubmit, hRequested>>
    /\ hEmits' = <<>>
    /\ Quiescent /\ t # userInput
    /\ userInput' = t
    /\ microtasks' = IF Vue THEN QueueFlush(microtasks) ELSE microtasks
    /\ hEvent' = Event("type", NoReply)
    /\ hCalls' = <<>>
    /\ UNCHANGED <<impl, pc, message, chatLog, isProcessing, threadId, inflight, turns,
                   staticVizVars, vueVizVars>>

\* The form is submitted (Enter or the send button).
FormSubmit ==
    /\ Quiescent
    /\ turns < MaxTurns \/ Rejects(userInput, isProcessing)
    /\ HandlerEntry(userInput)
    /\ hEvent' = Event("submit", NoReply)
    /\ hCalls' = <<>>
    /\ hRequested' = hRequested
    /\ hEmits' = <<>>
    /\ UNCHANGED <<impl, userInput, chatLog, isProcessing, threadId, inflight, turns,
                   microtasks, staticVizVars, vueVizVars>>

\* A suggestion button is clicked: the text is put into the input box, then submitted.
SuggestionClick(query) ==
    /\ Quiescent
    /\ turns < MaxTurns \/ Rejects(query, isProcessing)
    /\ IF Static /\ query = <<>>
       THEN UNCHANGED <<userInput, pc, message, hSubmit>>
       ELSE userInput' = query /\ HandlerEntry(query)
    /\ microtasks' = IF Vue /\ query # userInput THEN QueueFlush(microtasks) ELSE microtasks
    /\ hEvent' = Event("suggestion", NoReply)
    /\ hCalls' = <<>>
    /\ hRequested' = hRequested
    /\ hEmits' = <<>>
    /\ UNCHANGED <<impl, chatLog, isProcessing, threadId, inflight, turns,
                   staticVizVars, vueVizVars>>

\* ------------------------------------------------------------ chat: accepted submit
ClearInput ==
    /\ UNCHANGED <<hSubmit, hRequested, hEmits>>
    /\ pc = "clear"
    /\ userInput' = <<>>
    /\ message' = IF Vue THEN Trim(userInput) ELSE message
    /\ microtasks' = IF Vue THEN QueueFlush(microtasks) ELSE microtasks
    /\ pc' = NextPc("clear")
    /\ UNCHANGED <<impl, chatLog, isProcessing, threadId, inflight, turns,
                   staticVizVars, vueVizVars, hEvent, hCalls>>

AppendUser ==
    /\ UNCHANGED <<hSubmit, hRequested, hEmits>>
    /\ pc = "user"
    /\ chatLog' = IF Static THEN addMessageToChat(chatLog, "user", message)
                  ELSE pushMessage(chatLog, "user", message)
    /\ pc' = NextPc("user")
    /\ UNCHANGED <<impl, message, userInput, isProcessing, threadId, inflight, turns,
                   microtasks, staticVizVars, vueVizVars, hEvent, hCalls>>

SetProcessing ==
    /\ UNCHANGED <<hSubmit, hRequested, hEmits>>
    /\ pc = "flag"
    /\ isProcessing' = TRUE
    /\ pc' = NextPc("flag")
    /\ UNCHANGED <<impl, message, userInput, chatLog, threadId, inflight, turns,
                   microtasks, staticVizVars, vueVizVars, hEvent, hCalls>>

AddThinking ==
    /\ UNCHANGED <<hSubmit, hRequested, hEmits>>
    /\ pc = "think"
    /\ chatLog' = addThinkingMessage(chatLog, turns)
    /\ pc' = NextPc("think")
    /\ UNCHANGED <<impl, message, userInput, isProcessing, threadId, inflight, turns,
                   microtasks, staticVizVars, vueVizVars, hEvent, hCalls>>

\* Faulty variant: the request never names a thread.
PostChatWithoutThread ==
    /\ UNCHANGED <<hSubmit, hRequested, hEmits>>
    /\ pc = "post"
    /\ inflight' = Append(inflight, [message |-> message, thread_id |-> NULL,
                                     thinkingId |-> IF Static THEN turns ELSE 0])
    /\ turns' = turns + 1
    /\ message' = <<>>
    /\ pc' = NextPc("post")
    /\ UNCHANGED <<impl, userInput, chatLog, isProcessing, threadId, microtasks,
                   staticVizVars, vueVizVars, hEvent, hCalls>>

\* fetch / axios.post of {message, thread_id}: the call is outstanding from here.
PostChat ==
    /\ UNCHANGED <<hSubmit, hRequested, hEmits>>
    /\ pc = "post"
    /\ inflight' = Append(inflight, [message |-> message, thread_id |-> threadId,
                                     thinkingId |-> IF Static THEN turns ELSE 0])
    /\ turns' = turns + 1
    /\ message' = <<>>
    /\ pc' = NextPc("post")
    /\ UNCHANGED <<impl, userInput, chatLog, isProcessing, threadId, microtasks,
                   staticVizVars, vueVizVars, hEvent, hCalls>>

\* ------------------------------------------------------------ chat: the reply
\* sendMessageToBackend throws: fetch rejected, status not ok, or json() rejected.
StaticFetchFails(r) == r.kind # "ok"

\* error.message of what the try block threw.
TypeErrorMessage == <<"Cannot read properties of undefined (reading 'replace')">>
StaticError(r) ==
    IF r.kind = "http" THEN <<"API error: ", r.status>>
    ELSE IF r.kind = "ok" THEN TypeErrorMessage
    ELSE r.reason

\* Faulty variant: the catch block drops error.message.
StaticErrorTextGeneric(r) == <<"Sorry, I encountered an error: ">>

\* The text of the catch block's message.
StaticErrorText(r) == <<"Sorry, I encountered an error: ">> \o StaticError(r)

\* Faulty variant: the thread id of the reply is not stored.
StaleThreadId(old, new) == old

\* The thread id stored after a reply that was processed.
UpdatedThreadId(old, new) == new

\* Faulty variant: the flag is reset at the end of the try block, not in `finally`.
ProcessingAfterReplyInTry(threw) == threw

\* The in-flight flag after the handler resumed: reset in `finally`, whether or not
\* the try block threw.
ProcessingAfterReply(threw) == FALSE

\* handleChatSubmit after `await sendMessageToBackend(message)`: try, catch, finally.
\* processMessageContent throws on an undefined response, before the element is added.
StaticReply(req, r) ==
    LET removed == removeThinkingMessage(chatLog, req.thinkingId)
    IN  /\ IF StaticFetchFails(r) \/ r.response = UndefText
           THEN /\ chatLog' = addMessageToChat(removed, "assistant", StaticErrorText(r))
                /\ hCalls' = <<>>
                /\ UNCHANGED <<threadId, staticVizVars, microtasks, hRequested>>
           ELSE /\ chatLog' = addMessageToChat(removed, "assistant", r.response)
                /\ threadId' = UpdatedThreadId(threadId, r.thread_id)
                /\ IF Truthy(r.cypher_query)
                   THEN visualizeGraph(r.cypher_query)
                   ELSE hCalls' = <<>> /\ UNCHANGED <<staticVizVars, microtasks, hRequested>>
        /\ isProcessing' = ProcessingAfterReply(StaticFetchFails(r) \/ r.response = UndefText)

\* axios rejects on a network error and on a status outside 2xx.
AxiosRejects(r) == r.kind \in {"http", "network"}
AxiosError(r) ==
    IF r.kind = "http" THEN <<"Request failed with status code ", r.status>> ELSE r.reason

\* response.data: the parsed body; a body that is not JSON stays a string, whose
\* fields read as undefined.
VueData(r) ==
    IF r.kind = "badjson"
    THEN [response |-> UndefText, thread_id |-> UNDEF, cypher_query |-> UNDEF]
    ELSE [response |-> r.response, thread_id |-> r.thread_id,
          cypher_query |-> r.cypher_query]

\* The text of the catch block's message: error.message || "Erreur inconnue".
VueErrorText(r) ==
    <<"Desole, j'ai rencontre une erreur: ">>
        \o (IF AxiosError(r) = <<>> THEN <<"Erreur inconnue">> ELSE AxiosError(r))

\* sendMessage after `await axios.post(...)`: try, catch, finally.
VueReply(req, r) ==
    /\ IF AxiosRejects(r)
       THEN /\ chatLog' = pushMessage(chatLog, "assistant", VueErrorText(r))
            /\ UNCHANGED <<threadId, hasVisualizedGraph, currentCypherQuery,
                           lastResponseDebug, visualizationError, hRequested>>
       ELSE /\ chatLog' = pushMessage(chatLog, "assistant", VueData(r).response)
            /\ threadId' = UpdatedThreadId(threadId, VueData(r).thread_id)
            /\ lastResponseDebug' = r
            /\ IF Truthy(VueData(r).cypher_query)
               THEN /\ currentCypherQuery' = VueData(r).cypher_query
                    /\ hasVisualizedGraph' = TRUE
                    /\ visualizationError' = NULL
                    /\ hRequested' = VueData(r).cypher_query
               ELSE UNCHANGED <<hasVisualizedGraph, currentCypherQuery, visualizationError,
                                hRequested>>
    /\ isProcessing' = ProcessingAfterReply(AxiosRejects(r))
    /\ microtasks' = QueueFlush(microtasks)
    /\ hCalls' = <<>>
    /\ neovis' = neovis

\* Faulty variant: the settled call is outstanding again, as after a retry.
ReissueAt(s, i) == s

RemoveAt(s, i) == SubSeq(s, 1, i - 1) \o SubSeq(s, i + 1, Len(s))

\* The backend call i settles with reply r and the awaiting handler resumes.
ChatReply(i, r) ==
    /\ hSubmit' = hSubmit
    /\ hEmits' = <<>>
    /\ Quiescent /\ i \in 1..Len(inflight)
    /\ inflight' = RemoveAt(inflight, i)
    /\ hEvent' = Event("reply", r)
    /\ IF Static
       THEN StaticReply(inflight[i], r) /\ UNCHANGED vueVizVars
       ELSE VueReply(inflight[i], r) /\ UNCHANGED staticVizVars
    /\ UNCHANGED <<impl, pc, message, userInput, turns>>

\* ------------------------------------------------------------ NeoVisComponent on its own
\* The values a parent may bind to the `query` prop: strings, or nothing at all.
AdapterQueries == {UNDEF, "", "q1", "q2"}

\* A new component instance: data() and the bound prop.
NewComponent(q) ==
    [mounted |-> TRUE, query |-> q, loading |-> FALSE, error |-> NULL,
     debugInfo |-> EmptyDebug, content |-> NULL]

\* The parent renders the component with :query="q": the immediate watcher runs
\* renderGraph, then mounted() runs it again.
MountComponent(q) ==
    /\ impl = "neovis" /\ Quiescent /\ ~neovis.mounted
    /\ LET created == NewComponent(q)
           watched == renderGraph(created)
       IN  /\ neovis' = renderGraph(watched)
           /\ microtasks' = RenderTicks(created) \o RenderTicks(watched)
           /\ hCalls' = <<q, q>>
    /\ hRequested' = q
    /\ hEvent' = Event("mount", NoReply)
    /\ hEmits' = <<>>
    /\ UNCHANGED <<impl, chatVars, staticVizVars, hasVisualizedGraph, currentCypherQuery,
                   lastResponseDebug, visualizationError, hSubmit>>

\* The parent binds another value: the query watcher runs renderGraph.
SetQueryProp(q) ==
    /\ impl = "neovis" /\ Quiescent /\ neovis.mounted /\ q # neovis.query
    /\ LET updated == [neovis EXCEPT !.query = q]
       IN  /\ neovis' = renderGraph(updated)
           /\ microtasks' = RenderTicks(updated)
           /\ hCalls' = <<q>>
    /\ hRequested' = q
    /\ hEvent' = Event("prop", NoReply)
    /\ hEmits' = <<>>
    /\ UNCHANGED <<impl, chatVars, staticVizVars, hasVisualizedGraph, currentCypherQuery,
                   lastResponseDebug, visualizationError, hSubmit>>

\* The parent takes the component out of its template and calls rerender() in the
\* same handler: the flush removes the container before the $nextTick callback runs.
RemoveWhileRendering ==
    /\ impl = "neovis" /\ Quiescent /\ neovis.mounted
    /\ neovis' = [rerender(neovis) EXCEPT !.mounted = FALSE]
    /\ microtasks' = RenderTicks(neovis)
    /\ hCalls' = <<neovis.query>>
    /\ hEvent' = Event("remove", NoReply)
    /\ hEmits' = <<>>
    /\ UNCHANGED <<impl, chatVars, staticVizVars, hasVisualizedGraph, currentCypherQuery,
                   lastResponseDebug, visualizationError, hSubmit, hRequested>>

AdapterInit == Init /\ impl = "neovis"

AdapterNext ==
    \/ \E q \in AdapterQueries : MountComponent(q) /\ UNCHANGED speechVars
    \/ \E q \in AdapterQueries : SetQueryProp(q) /\ UNCHANGED speechVars
    \/ rerenderGraph /\ UNCHANGED speechVars
    \/ RemoveWhileRendering /\ UNCHANGED speechVars
    \/ VueTick /\ UNCHANGED speechVars

AdapterSpec == AdapterInit /\ [][AdapterNext]_vars

\* ------------------------------------------------------------ speech: SDK detection
\* The give-up delay and the polling period of checkSdkLoaded, in milliseconds.
GiveUpAfter == 5000
CheckEvery == 500
\* What the page may have loaded when DOMContentLoaded fires: nothing yet, the SDK
\* under either name, the fallback script (which defines the Microsoft namespace
\* and sets window.FromMock), or the fallback script next to the SDK.
SdkEnvs ==
    { NoSdk,
      [NoSdk EXCEPT !.hasGlobalSDK = TRUE],
      [NoSdk EXCEPT !.hasMicrosoftSDK = TRUE],
      [NoSdk EXCEPT !.hasMicrosoftSDK = TRUE, !.FromMock = TRUE],
      [NoSdk EXCEPT !.hasMicrosoftSDK = TRUE, !.FromMock = TRUE, !.mockFirst = TRUE],
      [NoSdk EXCEPT !.hasMicrosoftSDK = TRUE, !.hasGlobalSDK = TRUE, !.FromMock = TRUE] }

\* hasMicrosoftSDK || hasGlobalSDK of checkSdkLoaded and startSpeechRecognition.
SdkDetected == sdkEnv.hasMicrosoftSDK \/ sdkEnv.hasGlobalSDK

\* The give-up timer has fired.
GaveUp == timers.gaveUp

\* Every DOMContentLoaded listener has run.
DomDone == speechUi.domReady /\ (sdkEnv.FromMock => speechUi.mockReady)

\* Faulty variant: a speech event starts a new conversation thread.
SpeechEventResetsThread(name) ==
    /\ Quiescent
    /\ hEvent' = Event(name, NoReply)
    /\ hCalls' = <<>>
    /\ hEmits' = <<>>
    /\ threadId' = NULL
    /\ UNCHANGED <<impl, pc, message, chatLog, isProcessing, inflight, turns,
                   staticVizVars, vueVizVars, hSubmit, hRequested>>

\* A speech event is handled: the chat and the graph are not involved.
SpeechEvent(name) ==
    /\ Quiescent
    /\ hEvent' = Event(name, NoReply)
    /\ hCalls' = <<>>
    /\ hEmits' = <<>>
    /\ UNCHANGED <<impl, pc, message, chatLog, isProcessing, threadId, inflight, turns,
                   staticVizVars, vueVizVars, hSubmit, hRequested>>

\* What the handler leaves in the history.
Op(name, lastOp, raised) ==
    [name |-> name, raised |-> raised, lastOp |-> lastOp, text |-> <<>>,
     buffer |-> <<>>, twice |-> FALSE, failed |-> FALSE]

\* Faulty variant: the success branch leaves the give-up timer pending.
sdkFoundKeepsTimer(t) == [t EXCEPT !.checkIn = -1]

\* The timers after the success branch of checkSdkLoaded: the give-up timer, if one
\* is stored, is cleared, and no further check is scheduled.
sdkFound(t) ==
    [t EXCEPT !.checkIn = -1,
              !.giveUpIn = IF speechState.loadingTimeout # NULL THEN -1 ELSE @]

\* checkSdkLoaded. A negative delay: the timer is not pending.
checkSdkLoaded ==
    IF SdkDetected
    THEN /\ timers' = sdkFound(timers)
         /\ speechState' = [speechState EXCEPT !.loadingTimeout = NULL, !.sdkLoaded = TRUE]
         /\ speechUi' = [speechUi EXCEPT !.status = StatusReady, !.listeners = @ + 1,
                                         !.domReady = TRUE]
    ELSE /\ timers' = [timers EXCEPT !.checkIn = CheckEvery,
                          !.giveUpIn = IF speechState.loadingTimeout = NULL
                                       THEN GiveUpAfter ELSE @]
         /\ speechState' = [speechState EXCEPT !.loadingTimeout = "timer"]
         /\ speechUi' = [speechUi EXCEPT !.status = StatusLoading, !.domReady = TRUE]

\* speech.js on DOMContentLoaded: no usable speech configuration disables the
\* button; otherwise detection starts.
SpeechDomReady ==
    /\ Static /\ ~speechUi.domReady
    /\ (sdkEnv.FromMock /\ sdkEnv.mockFirst) => speechUi.mockReady
    /\ SpeechEvent("DOMContentLoaded")
    /\ IF speechConfig # "ok"
       THEN /\ speechUi' = [speechUi EXCEPT !.disabled = TRUE, !.status = StatusUnavailable,
                                            !.domReady = TRUE]
            /\ UNCHANGED <<speechState, timers>>
       ELSE checkSdkLoaded
    /\ hSpeech' = Op("DOMContentLoaded", hSpeech.lastOp, FALSE)
    /\ UNCHANGED <<userInput, microtasks, sdkEnv, speechConfig, recognizers, sdkCalls, tokenCalls>>

\* The fallback script on DOMContentLoaded: it disables the button.
MockDomReady ==
    /\ Static /\ sdkEnv.FromMock /\ ~speechUi.mockReady
    /\ ~sdkEnv.mockFirst => speechUi.domReady
    /\ SpeechEvent("mockReady")
    /\ speechUi' = [speechUi EXCEPT !.disabled = TRUE, !.status = StatusUnavailable,
                                    !.mockReady = TRUE]
    /\ hSpeech' = Op("mockReady", hSpeech.lastOp, FALSE)
    /\ UNCHANGED <<userInput, microtasks, sdkEnv, speechConfig, speechState, timers, recognizers,
                   sdkCalls, tokenCalls>>

\* Time passes up to the next check: what is left of the give-up delay shrinks.
Elapse(t, d) == [t EXCEPT !.giveUpIn = IF @ < 0 THEN @ ELSE @ - d]

\* setTimeout(checkSdkLoaded, 500) fires; a give-up timer due by then fires first.
CheckTimer ==
    /\ Static /\ DomDone
    /\ timers.checkIn >= 0
    /\ timers.giveUpIn < 0 \/ timers.checkIn < timers.giveUpIn
    /\ SpeechEvent("check")
    /\ LET left == Elapse(timers, timers.checkIn)
       IN  IF SdkDetected
           THEN /\ timers' = sdkFound(left)
                /\ speechState' = [speechState EXCEPT !.loadingTimeout = NULL,
                                                      !.sdkLoaded = TRUE]
                /\ speechUi' = [speechUi EXCEPT !.status = StatusReady, !.listeners = @ + 1]
           ELSE /\ timers' = [left EXCEPT !.checkIn = CheckEvery,
                                 !.giveUpIn = IF speechState.loadingTimeout = NULL
                                              THEN GiveUpAfter ELSE @]
                /\ speechState' = [speechState EXCEPT !.loadingTimeout = "timer"]
                /\ speechUi' = [speechUi EXCEPT !.status = StatusLoading]
    /\ hSpeech' = Op("check", hSpeech.lastOp, FALSE)
    /\ UNCHANGED <<userInput, microtasks, sdkEnv, speechConfig, recognizers, sdkCalls, tokenCalls>>

\* The give-up timer fires: message, button disabled. The timer id stays stored.
GiveUpTimer ==
    /\ Static /\ DomDone
    /\ timers.giveUpIn >= 0
    /\ timers.checkIn < 0 \/ timers.giveUpIn <= timers.checkIn
    /\ SpeechEvent("giveUp")
    /\ timers' = [timers EXCEPT !.giveUpIn = -1, !.gaveUp = TRUE,
                                !.checkIn = IF @ < 0 THEN @ ELSE @ - timers.giveUpIn]
    /\ speechUi' = [speechUi EXCEPT !.status = StatusGiveUp, !.disabled = TRUE]
    /\ hSpeech' = Op("giveUp", hSpeech.lastOp, FALSE)
    /\ UNCHANGED <<userInput, microtasks, sdkEnv, speechConfig, speechState, recognizers, sdkCalls,
                   tokenCalls>>

\* The SDK script finishes loading after the page started polling.
SdkLoads ==
    /\ Static /\ DomDone /\ sdkEnv = NoSdk
    /\ SpeechEvent("sdkLoads")
    /\ sdkEnv' = [sdkEnv EXCEPT !.hasGlobalSDK = TRUE]
    /\ hSpeech' = Op("sdkLoads", hSpeech.lastOp, FALSE)
    /\ UNCHANGED <<userInput, microtasks, speechConfig, speechState, speechUi, timers, recognizers,
                   sdkCalls, tokenCalls>>

\* The fallback script runs after DOMContentLoaded has fired: it sets
\* window.FromMock and defines the Microsoft namespace where none is defined. The
\* DOMContentLoaded listener it registers never runs, so the button stays as it is.
MockLoads ==
    /\ Static /\ DomDone /\ ~sdkEnv.FromMock
    /\ SpeechEvent("mockLoads")
    /\ sdkEnv' = [sdkEnv EXCEPT !.FromMock = TRUE, !.hasMicrosoftSDK = TRUE]
    /\ speechUi' = [speechUi EXCEPT !.mockReady = TRUE]
    /\ hSpeech' = Op("mockLoads", hSpeech.lastOp, FALSE)
    /\ UNCHANGED <<userInput, microtasks, speechConfig, speechState, timers, recognizers,
                   sdkCalls, tokenCalls>>

\* ------------------------------------------------------------ speech: sessions
\* Recognizers constructed, SDK calls outstanding when the mic button is pressed, and
\* tokens held by the input buffer, at most.
MaxRecognizers == 2
MaxCalls == 2
MaxBuffer == 3

\* What the recognizer may report as recognized text.
Utterances == {<<"bonjour">>, <<"monde">>, <<" ", "ok">>, <<>>}

\* Faulty variant: the click listener is there from the start.
MicEnabledBeforeDetection ==
    IF Static THEN DomDone /\ ~speechUi.disabled
    ELSE Vue /\ speechState.speechEnabled /\ ~speechState.destroyed

\* The mic button can be pressed: the click listener is registered and the button is
\* not disabled (static page); :disabled="!speechEnabled" (Vue view).
MicEnabled ==
    IF Static THEN DomDone /\ speechUi.listeners > 0 /\ ~speechUi.disabled
    ELSE Vue /\ speechState.speechEnabled /\ ~speechState.destroyed

PendingStarts == Len(SelectSeq(tokenCalls, LAMBDA c : c = "start"))

\* Faulty variant: the recording flag is left as it was.
stopKeepsRecording(st, throws) ==
    [st EXCEPT !.recognizer = IF Static /\ st.recognizer # NoRecognizer /\ throws THEN NoRecognizer ELSE @]

\* stopSpeechRecognition on state st; `throws`: stopContinuousRecognitionAsync throws
\* at the call. speech.js catches that and drops the handle; HomeView does not catch.
stopSpeechRecognition(st, throws) ==
    [st EXCEPT !.isRecording = FALSE,
               !.recognizer = IF Static /\ st.recognizer # NoRecognizer /\ throws THEN NoRecognizer ELSE @]

\* The stop call escapes from stopSpeechRecognition as an exception.
StopRaises(st, throws) == Vue /\ st.recognizer # NoRecognizer /\ throws

\* The SDK calls outstanding after stopSpeechRecognition.
StopCalls(st, calls, throws) ==
    IF st.recognizer # NoRecognizer /\ ~throws
    THEN Append(calls, [op |-> "stop", rec |-> st.recognizer])
    ELSE calls

\* stopSpeechRecognition runs; the static page's status line ends as `status`.
\* `failed`: it runs to handle a failed start.
StopNow(st, calls, throws, status, name, twice, failed) ==
    /\ speechState' = stopSpeechRecognition(st, throws)
    /\ sdkCalls' = StopCalls(st, calls, throws)
    /\ speechUi' = IF Static THEN [speechUi EXCEPT !.recording = FALSE, !.status = status]
                   ELSE speechUi
    /\ hSpeech' = [Op(name, "stop", StopRaises(st, throws)) EXCEPT !.twice = twice,
                                                                   !.failed = failed]

\* Faulty variant: the start does not look at window.FromMock.
StartRefusedWithoutSentinel(ctor) == ctor = "throws" \/ (Static /\ ~SdkDetected)

\* The try block of startSpeechRecognition throws before a recognizer is held: the
\* static page refuses the fallback script's flag and a missing SDK; the
\* recognizer's construction may throw.
StartRefused(ctor) == ctor = "throws" \/ (Static /\ (sdkEnv.FromMock \/ ~SdkDetected))

\* startSpeechRecognition from the point where the token is at hand. The static page
\* first tests window.FromMock and the SDK's presence; `ctor`: the recognizer's
\* construction succeeds or throws. speech.js's catch block calls
\* stopSpeechRecognition, which overwrites the error text it has just shown.
StartNow(st, calls, ctor, throws, name) ==
    IF StartRefused(ctor)
    THEN /\ recognizers' = recognizers
         /\ IF Static
            THEN StopNow(st, calls, throws, StatusReady, name, FALSE, TRUE)
            ELSE /\ speechState' = [st EXCEPT !.isRecording = FALSE]
                 /\ sdkCalls' = calls
                 /\ speechUi' = speechUi
                 /\ hSpeech' = [Op(name, "start", FALSE) EXCEPT !.failed = TRUE]
    ELSE /\ recognizers' = Append(recognizers, [state |-> "starting"])
         /\ speechState' = [st EXCEPT !.recognizer = Len(recognizers) + 1,
                                      !.isRecording = TRUE]
         /\ sdkCalls' = Append(calls, [op |-> "start", rec |-> Len(recognizers) + 1])
         /\ speechUi' = IF Static
                        THEN [speechUi EXCEPT !.recording = TRUE, !.status = StatusListening]
                        ELSE speechUi
         /\ hSpeech' = Op(name, "start", FALSE)

\* The mic button is pressed while not recording: toggleSpeechRecognition starts.
\* HomeView without a token first awaits fetchSpeechToken.
MicStart(ctor, throws) ==
    /\ MicEnabled /\ ~speechState.isRecording
    /\ Len(recognizers) + PendingStarts < MaxRecognizers
    /\ Len(sdkCalls) < MaxCalls
    /\ SpeechEvent("micStart")
    /\ IF Vue /\ speechState.speechToken = NULL
       THEN /\ tokenCalls' = Append(tokenCalls, "start")
            /\ hSpeech' = Op("micStart", "start", FALSE)
            /\ UNCHANGED <<speechState, speechUi, recognizers, sdkCalls>>
       ELSE /\ StartNow(speechState, sdkCalls, ctor, throws, "micStart")
            /\ tokenCalls' = tokenCalls
    /\ UNCHANGED <<userInput, microtasks, sdkEnv, speechConfig, timers>>

\* The mic button is pressed while recording: toggleSpeechRecognition stops.
MicStop(throws) ==
    /\ MicEnabled /\ speechState.isRecording
    /\ Len(sdkCalls) < MaxCalls
    /\ SpeechEvent("micStop")
    /\ StopNow(speechState, sdkCalls, throws, StatusReady, "micStop", hSpeech.lastOp = "stop",
               FALSE)
    /\ UNCHANGED <<userInput, microtasks, sdkEnv, speechConfig, timers, recognizers, tokenCalls>>

\* HomeView.beforeDestroy: stop if a recognizer is held.
Destroy(throws) ==
    /\ Vue /\ ~speechState.destroyed
    /\ SpeechEvent("destroy")
    /\ IF speechState.recognizer # NoRecognizer
       THEN StopNow([speechState EXCEPT !.destroyed = TRUE], sdkCalls, throws, StatusReady,
                    "destroy", hSpeech.lastOp = "stop", FALSE)
       ELSE /\ speechState' = [speechState EXCEPT !.destroyed = TRUE]
            /\ hSpeech' = Op("destroy", hSpeech.lastOp, FALSE)
            /\ UNCHANGED <<speechUi, sdkCalls>>
    /\ UNCHANGED <<userInput, microtasks, sdkEnv, speechConfig, timers, recognizers, tokenCalls>>

\* GET /api/speech-token settles: a token, a body without token, or a rejection.
\* A start that awaited it goes on if it got a token.
TokenSettles(i, outcome, ctor, throws) ==
    /\ Vue /\ i \in 1..Len(tokenCalls)
    /\ SpeechEvent("token")
    /\ tokenCalls' = RemoveAt(tokenCalls, i)
    /\ LET st == IF outcome = "token"
                 THEN [speechState EXCEPT !.speechToken = "token", !.speechEnabled = TRUE]
                 ELSE [speechState EXCEPT !.speechEnabled = FALSE]
       IN  IF tokenCalls[i] = "start" /\ outcome = "token"
           THEN StartNow(st, sdkCalls, ctor, throws, "token")
           ELSE /\ speechState' = st
                /\ hSpeech' = Op("token", hSpeech.lastOp, FALSE)
                /\ UNCHANGED <<speechUi, recognizers, sdkCalls>>
    /\ UNCHANGED <<userInput, microtasks, sdkEnv, speechConfig, timers>>

\* The recognizer after a callback of the SDK.
Settled(recs, call, ok) ==
    IF call.op = "stop"
    THEN IF ok THEN [recs EXCEPT ![call.rec].state = "stopped"] ELSE recs
    ELSE IF recs[call.rec].state # "starting" THEN recs
    ELSE [recs EXCEPT ![call.rec].state = IF ok THEN "listening" ELSE "failed"]

\* A callback of startContinuousRecognitionAsync / stopContinuousRecognitionAsync.
SdkCallSettles(i, ok, throws) ==
    /\ i \in 1..Len(sdkCalls)
    /\ LET call == sdkCalls[i]
           rest == RemoveAt(sdkCalls, i)
           name == call.op \o (IF ok THEN "Ok" ELSE "Err")
       IN  /\ SpeechEvent(name)
           /\ recognizers' = Settled(recognizers, call, ok)
           /\ IF call.op = "stop"
              THEN /\ speechState' = [speechState EXCEPT !.recognizer = NoRecognizer]
                   /\ sdkCalls' = rest
                   /\ hSpeech' = Op(name, hSpeech.lastOp, FALSE)
                   /\ speechUi' = speechUi
              ELSE IF ok
              THEN /\ sdkCalls' = rest
                   /\ hSpeech' = Op(name, hSpeech.lastOp, FALSE)
                   /\ UNCHANGED <<speechState, speechUi>>
              ELSE IF Static
              THEN StopNow(speechState, rest, throws, StatusStartError, name,
                           hSpeech.lastOp = "stop", TRUE)
              ELSE /\ speechState' = [speechState EXCEPT !.isRecording = FALSE]
                   /\ sdkCalls' = rest
                   /\ hSpeech' = [Op(name, hSpeech.lastOp, FALSE) EXCEPT !.failed = TRUE]
                   /\ speechUi' = speechUi
    /\ UNCHANGED <<userInput, microtasks, sdkEnv, speechConfig, timers, tokenCalls>>

\* Faulty variant: the utterance replaces the buffer.
recognizedOverwrites(buffer, text) == text

\* The `recognized` handler: speech.js trims the text and skips an empty one,
\* HomeView skips a text of length 0; the text goes behind the buffer, after a
\* space if the buffer is not empty.
recognized(buffer, text) ==
    LET t == IF Static THEN Trim(text) ELSE text
    IN  IF t = <<>> THEN buffer
        ELSE buffer \o (IF buffer # <<>> THEN <<" ">> ELSE <<>>) \o t

\* Faulty variant: the first utterance ends the session.
RecognizedEndsSession(r, text) ==
    /\ r \in 1..Len(recognizers) /\ recognizers[r].state = "listening"
    /\ Len(userInput) + Len(text) + 1 <= MaxBuffer
    /\ SpeechEvent("recognized")
    /\ userInput' = recognized(userInput, text)
    /\ microtasks' = IF Vue /\ userInput' # userInput THEN QueueFlush(microtasks)
                     ELSE microtasks
    /\ hSpeech' = [Op("recognized", hSpeech.lastOp, FALSE) EXCEPT !.text = text,
                                                                !.buffer = userInput]
    /\ speechState' = [speechState EXCEPT !.isRecording = FALSE]
    /\ UNCHANGED <<sdkEnv, speechConfig, speechUi, timers, recognizers,
                   sdkCalls, tokenCalls>>

\* A listening recognizer reports recognized speech.
Recognized(r, text) ==
    /\ r \in 1..Len(recognizers) /\ recognizers[r].state = "listening"
    /\ Len(userInput) + Len(text) + 1 <= MaxBuffer
    /\ SpeechEvent("recognized")
    /\ userInput' = recognized(userInput, text)
    /\ microtasks' = IF Vue /\ userInput' # userInput THEN QueueFlush(microtasks)
                     ELSE microtasks
    /\ hSpeech' = [Op("recognized", hSpeech.lastOp, FALSE) EXCEPT !.text = text,
                                                                !.buffer = userInput]
    /\ UNCHANGED <<sdkEnv, speechConfig, speechState, speechUi, timers, recognizers,
                   sdkCalls, tokenCalls>>

\* The pages with speech: the static page loads with any of the environments, the
\* Vue view imports the SDK and has issued its mount-time token request.
SpeechInit ==
    /\ ChatInit /\ impl \in {"static", "vue"} /\ (Static => neoVisLoaded)
    /\ SpeechInitState
    /\ IF Static
       THEN /\ sdkEnv \in SdkEnvs
            /\ speechConfig \in {"ok", "missing", "notoken", "error"}
            /\ tokenCalls = <<>>
       ELSE /\ sdkEnv = [NoSdk EXCEPT !.hasGlobalSDK = TRUE]
            /\ speechConfig = "ok"
            /\ tokenCalls = <<"mount">>

SpeechNext ==
    \/ SpeechDomReady
    \/ MockDomReady
    \/ CheckTimer
    \/ GiveUpTimer
    \/ SdkLoads
    \/ MockLoads
    \/ \E ctor \in {"ok", "throws"}, throws \in BOOLEAN : MicStart(ctor, throws)
    \/ \E throws \in BOOLEAN : MicStop(throws)
    \/ \E throws \in BOOLEAN : Destroy(throws)
    \/ \E i \in 1..Len(tokenCalls), outcome \in {"token", "notoken", "reject"},
          ctor \in {"ok", "throws"}, throws \in BOOLEAN : TokenSettles(i, outcome, ctor, throws)
    \/ \E i \in 1..Len(sdkCalls), ok \in BOOLEAN, throws \in BOOLEAN :
          SdkCallSettles(i, ok, throws)
    \/ \E r \in 1..MaxRecognizers, text \in Utterances : Recognized(r, text)
    \/ \E t \in Inputs : TypeInput(t) /\ hSpeech' = Op("type", hSpeech.lastOp, FALSE)
                            /\ UNCHANGED <<sdkEnv, speechConfig, speechState, speechUi,
                                           timers, recognizers, sdkCalls, tokenCalls>>
    \/ VueFlush /\ UNCHANGED speechVars

SpeechSpec == SpeechInit /\ [][SpeechNext]_vars

\* ------------------------------------------------------------ specification
Next ==
    \/ \E t \in Inputs : TypeInput(t) /\ UNCHANGED speechVars
    \/ FormSubmit /\ UNCHANGED speechVars
    \/ \E q \in Suggestions : SuggestionClick(q) /\ UNCHANGED speechVars
    \/ ClearInput /\ UNCHANGED speechVars
    \/ AppendUser /\ UNCHANGED speechVars
    \/ SetProcessing /\ UNCHANGED speechVars
    \/ AddThinking /\ UNCHANGED speechVars
    \/ PostChat /\ UNCHANGED speechVars
    \/ \E i \in 1..Len(inflight), r \in Replies : ChatReply(i, r) /\ UNCHANGED speechVars
    \/ \E ok \in BOOLEAN : InitRenderDone(ok) /\ UNCHANGED speechVars
    \/ VizResume /\ UNCHANGED speechVars
    \/ VueFlush /\ UNCHANGED speechVars
    \/ VueTick /\ UNCHANGED speechVars
    \/ rerenderGraph /\ UNCHANGED speechVars

PageInit == Init /\ impl \in {"static", "vue"}

Spec == PageInit /\ [][Next]_vars

\* ------------------------------------------------------------ properties
Last(s) == s[Len(s)]
IsSuffix(t, s) == Len(t) <= Len(s) /\ SubSeq(s, Len(s) - Len(t) + 1, Len(s)) = t
Occurs(c, s) == \E i \in 1..Len(s) : s[i] = c

\* A step that handles the event `name`, taken between handlers.
Handles(name) == Quiescent /\ hEvent'.name = name
\* The reply the last event delivered.
Got == hEvent.reply
\* A successful chat turn: HTTP 2xx with a body carrying the response text.
Succeeded(r) == r.kind = "ok" /\ r.response # UndefText
\* A failed backend call: network error or status outside 2xx.
Failed(r) == r.kind \in {"http", "network"}
NoQuery(q) == q \in {NULL, ""}

\* What the visualization shows and records, in either front end.
vizShown == <<staticVizVars, hasVisualizedGraph, currentCypherQuery, visualizationError, neovis>>

\* C1: at most one backend chat call is outstanding at any time; a submit that
\* arrives while a call is pending issues no request.
C1_SingleFlight == Len(inflight) <= 1

\* C1 witness: a suggestion was clicked while the call was pending, and dropped.
C1_Witness ==
    /\ Quiescent /\ hEvent.name = "suggestion"
    /\ Len(inflight) = 1 /\ isProcessing /\ userInput # <<>>

\* C2: a submit with an empty trimmed input, or while a call is in flight, returns
\* at once and changes nothing: input buffer, log, thread id, flag, visualization,
\* outstanding calls.
C2_RejectedSubmitNoOp ==
    [][ (/\ Quiescent
         /\ hEvent'.name \in {"submit", "suggestion"}
         /\ Trim(userInput') = <<>> \/ isProcessing)
        => /\ pc' = "idle"
           /\ UNCHANGED <<chatLog, threadId, isProcessing, inflight, turns, vizShown,
                          lastResponseDebug>>
           /\ hEvent'.name = "submit" => UNCHANGED <<userInput, microtasks>> ]_vars

\* C2 witness: a form submit with text in the buffer was dropped while in flight.
C2_Witness ==
    /\ Quiescent /\ hEvent.name = "submit"
    /\ isProcessing /\ Len(inflight) = 1 /\ Trim(userInput) # <<>>

\* Effects of an accepted submit, seen on the state.
Cleared == userInput = <<>>
UserAppended ==
    Len(Log) > 0 /\ Last(Log) = [role |-> "user", content |-> Trim(hSubmit.raw)]

\* C3 as stated: before the call is issued the handler clears the buffer, appends
\* the user Message, appends the placeholder, sets the flag, in this order.
C3_AsStated ==
    pc # "idle" =>
        /\ isProcessing => Thinking
        /\ Thinking => UserAppended
        /\ UserAppended => Cleared

\* C3 amended: the order is clear the buffer, append the user Message (the trimmed
\* text), set the flag, show the placeholder; all four are done when the call is issued.
C3_SubmitOrder ==
    [][ /\ pc' # "idle" =>
            /\ Thinking' => isProcessing'
            /\ isProcessing' => UserAppended'
            /\ UserAppended' => Cleared'
        /\ Len(inflight') > Len(inflight) =>
            /\ Cleared /\ UserAppended /\ isProcessing /\ Thinking
            /\ Last(inflight').message = Trim(hSubmit.raw) ]_vars

\* C3 witness: the static page has issued the call of an accepted submit.
C3_Witness ==
    /\ Static /\ Quiescent /\ hEvent.name = "submit" /\ Len(inflight) = 1
    /\ Cleared /\ UserAppended /\ isProcessing /\ Thinking

\* C4: a successful turn leaves the log as the submit found it plus the user Message
\* and one assistant Message with the returned text, and no placeholder.
C4_SuccessfulTurn ==
    [][ (Handles("reply") /\ Succeeded(Got'))
        => /\ Log' = hSubmit.log \o << [role |-> "user", content |-> Trim(hSubmit.raw)],
                                      [role |-> "assistant", content |-> Got'.response] >>
           /\ ~Thinking' ]_vars

\* C4 witness: the second turn of a conversation succeeded.
C4_Witness ==
    /\ Quiescent /\ hEvent.name = "reply" /\ Succeeded(Got)
    /\ Len(Log) = 4 /\ ~Thinking

\* C5: after a successful turn the stored thread id is the one the backend returned,
\* also on the first call; a failed turn leaves it as it was.
C5_ThreadIdFollowsBackend ==
    [][ Handles("reply")
        => /\ Succeeded(Got') => threadId' = Got'.thread_id
           /\ Failed(Got') => threadId' = threadId ]_vars

\* C5 witness: a turn failed after an earlier turn had stored the id t1.
C5_Witness ==
    /\ Quiescent /\ hEvent.name = "reply" /\ Failed(Got) /\ threadId = "t1"

\* C6 as stated: once non-null, the stored thread id never changes.
C6_ThreadIdPinned ==
    [][ threadId \notin {NULL, UNDEF} => threadId' = threadId ]_vars

\* C7: a failed call removes the placeholder, appends exactly one assistant Message
\* whose text embeds the failure reason, keeps the thread id, and leaves the
\* visualization alone: no render is requested, then or in the flush that follows.
C7_FailedTurn ==
    [][ (hEvent'.name = "reply" /\ Failed(Got'))
        => /\ threadId' = threadId
           /\ UNCHANGED vizShown
           /\ hCalls' = <<>>
           /\ ~Thinking'
           /\ Quiescent =>
                /\ Len(Log') = Len(Log) + 1
                /\ SubSeq(Log', 1, Len(Log)) = Log
                /\ Last(Log').role = "assistant"
                /\ Last(Log').content # <<>>
                /\ Got'.kind = "http" => Occurs(Got'.status, Last(Log').content)
                /\ Got'.reason # <<>> => IsSuffix(Got'.reason, Last(Log').content) ]_vars

\* C7 witness: HTTP 500 on the second turn, a graph being on display.
C7_Witness ==
    /\ Quiescent /\ hEvent.name = "reply" /\ Got.kind = "http"
    /\ Len(Log) = 4 /\ Occurs("500", Last(Log).content)
    /\ vizState.lastQuery # NULL \/ currentCypherQuery # NULL

\* C8: the flag is set only while a submit is running or its call is outstanding:
\* every resolution, whatever the reply, clears it.
C8_FlagCleared == isProcessing => (pc # "idle" \/ inflight # <<>>)

\* C8 witness: a body without the response field was handled and the flag is clear.
C8_Witness ==
    /\ Quiescent /\ hEvent.name = "reply" /\ Got \in MalformedReplies
    /\ ~isProcessing /\ inflight = <<>>

\* C9 as stated: a successful reply with a non-empty query invokes the render
\* operation exactly once, with that query.
C9_RenderOnce ==
    (Quiescent /\ hEvent.name = "reply" /\ Succeeded(Got) /\ ~NoQuery(Got.cypher_query))
        => hCalls = <<Got.cypher_query>>

\* C10: a successful reply without a query requests no render and leaves the current
\* query, the graph-shown flag and the visualization error as they were.
C10_NoQueryNoRender ==
    [][ (hEvent'.name = "reply" /\ Succeeded(Got') /\ NoQuery(Got'.cypher_query))
        => hCalls' = <<>> /\ UNCHANGED vizShown ]_vars

\* C10 witness: a reply with a null query arrived while a graph was on display.
C10_Witness ==
    /\ Quiescent /\ hEvent.name = "reply" /\ Succeeded(Got) /\ Got.cypher_query = NULL
    /\ vizState.lastQuery # NULL \/ currentCypherQuery # NULL

\* C11 as stated: a new visualization request supersedes a pending one: once nothing
\* is pending, the surface shows, and the recorded last query is, the query of the
\* latest request.
C11_LatestRequestWins ==
    (Quiescent /\ initAwait = NULL /\ hRequested # NULL) =>
        IF Static
        THEN /\ vizState.lastQuery = hRequested
             /\ vizState.viz # NULL => vizContainer.network = hRequested
        ELSE neovis.mounted => (neovis.query = hRequested /\ neovis.content = hRequested)

\* A step in which the component's render operation is invoked with an empty query.
RendersEmpty == impl = "neovis" /\ Quiescent /\ hCalls' # <<>> /\ ~Truthy(Last(hCalls'))

\* C12: render with an empty query reports an error and renders nothing: the surface
\* content is as it was, no loading state is entered, no callback is queued and so no
\* render-completed signal follows.
C12_EmptyQueryRejected ==
    [][ RendersEmpty
        => /\ neovis'.error = "No query provided"
           /\ neovis'.content = (IF neovis.mounted THEN neovis.content ELSE NULL)
           /\ neovis'.loading = (IF neovis.mounted THEN neovis.loading ELSE FALSE)
           /\ microtasks' = <<>>
           /\ hEmits' = <<>> ]_vars

\* C12 witness: the query prop was emptied while a graph was on display; the graph
\* is still there, with the error.
C12_Witness ==
    /\ impl = "neovis" /\ Quiescent /\ hEvent.name = "prop" /\ hCalls = <<"">>
    /\ neovis.content = "q1" /\ neovis.error = "No query provided" /\ ~neovis.loading
    /\ hEmits = <<>>

\* C13: rerender() re-issues render with the last-used query (loading is entered, the
\* error is reset and one callback for that query is queued), and changes nothing if
\* the component has no query or is not there.
C13_Rerender ==
    [][ Handles("rerender")
        => IF neovis.mounted /\ Truthy(neovis.query)
           THEN /\ hCalls' = <<neovis.query>>
                /\ neovis'.query = neovis.query
                /\ neovis'.loading /\ neovis'.error = NULL
                /\ microtasks' = <<Task("tick", neovis.query)>>
           ELSE UNCHANGED <<neovis, microtasks, visualizationError, chatVars>> ]_vars

\* C13 witness: rerender() on a component whose query was never bound; the adapter
\* is as the call found it.
C13_Witness ==
    /\ impl = "neovis" /\ Quiescent /\ hEvent.name = "rerender"
    /\ neovis.mounted /\ neovis.query = UNDEF
    /\ AdapterView = hEvent.before /\ hEmits = <<>>

\* C14 as stated: with the graph library not loaded, a visualization request ends
\* with the surface presenting the requested query (the container is the only place
\* where either page could show it).
C14_FallbackShowsQuery ==
    (Quiescent /\ hRequested # NULL /\ hEvent.name = "reply") =>
        IF Static
        THEN ~neoVisLoaded => vizContainer.network = hRequested
        ELSE neovis.mounted => neovis.content = hRequested

\* C15: every render of a non-empty query has ended, once its callback has run, with
\* loading cleared and one signal per render: completed with no error and the query
\* drawn, or, the container being absent, error with a message on display.
C15_RenderEnds ==
    (Component /\ Quiescent /\ hCalls # <<>> /\ Truthy(Last(hCalls))) =>
        /\ ~neovis.loading
        /\ Len(hEmits) = Len(hCalls)
        /\ IF neovis.mounted
           THEN /\ \A i \in 1..Len(hEmits) : hEmits[i] = "visualization-completed"
                /\ neovis.error = NULL /\ neovis.content = Last(hCalls)
           ELSE /\ \A i \in 1..Len(hEmits) : hEmits[i] = "visualization-error"
                /\ neovis.error =
                       "Error rendering graph: Visualization container element not found"

\* C15 witness: a render found its container gone and ended in the error state.
C15_Witness ==
    /\ impl = "neovis" /\ Quiescent /\ hCalls = <<"q1">> /\ ~neovis.mounted
    /\ hEmits = <<"visualization-error">> /\ ~neovis.loading /\ neovis.error # NULL

\* C16: render is idempotent: a render of the query the adapter had already settled
\* on leaves displayed content, recorded query, loading and error as they were.
C16_Idempotent ==
    (/\ Quiescent /\ initAwait = NULL
     /\ hCalls # <<>> /\ Truthy(Last(hCalls))
     /\ hEvent.before.query = Last(hCalls) /\ ~hEvent.before.loading)
        => AdapterView = hEvent.before

\* C16 witness: the static page drew q1 and a later reply carried q1 again.
C16_Witness ==
    /\ Static /\ Quiescent /\ hEvent.name = "reply" /\ hCalls = <<"q1">>
    /\ hEvent.before.query = "q1" /\ hEvent.before.content = "q1"
    /\ AdapterView = hEvent.before

\* C19: once the SDK-detection loop of the static page has given up, no presence
\* check is scheduled any more (so none is executed either).
C19_LoopEndsAtGiveUp == GaveUp => timers.checkIn < 0

\* C20: from the give-up on, the status line keeps the give-up message and the
\* session is never marked as SDK-loaded.
C20_GiveUpMessageStays ==
    GaveUp => speechUi.status = StatusGiveUp /\ ~speechState.sdkLoaded

\* The separator the claim describes: one space iff the old buffer is non-empty.
Separator(buffer) == IF buffer # <<>> THEN <<" ">> ELSE <<>>

\* C18 as stated: after a recognized (non-empty) utterance the buffer is the old
\* buffer, then the separator, then the recognized text as reported.
C18_AppendsReportedText ==
    (hSpeech.name = "recognized" /\ hSpeech.text # <<>>)
        => userInput = hSpeech.buffer \o Separator(hSpeech.buffer) \o hSpeech.text

\* The text the handler appends: the static page trims what the recognizer reports.
Heard == IF Static THEN Trim(hSpeech.text) ELSE hSpeech.text

\* C18: after a recognized utterance the buffer is the old buffer, then the
\* separator, then the text (trimmed on the static page); a text that is empty
\* (after trimming) leaves the buffer as it was. The old buffer is never overwritten.
C18_AppendsUtterance ==
    hSpeech.name = "recognized"
        => userInput = IF Heard = <<>> THEN hSpeech.buffer
                       ELSE hSpeech.buffer \o Separator(hSpeech.buffer) \o Heard

\* "bonjour" then "monde" on an empty buffer: "bonjour monde".
C18_Witness ==
    /\ hSpeech.name = "recognized" /\ hSpeech.text = <<"monde">>
    /\ hSpeech.buffer = <<"bonjour">>
    /\ userInput = <<"bonjour", " ", "monde">>

\* The session has no SDK call outstanding.
CallsSettled == sdkCalls = <<>>

\* C17: a stop that directly follows a stop (the first one's callback fired or not)
\* raises no error and leaves the session not recording; once the callbacks have
\* fired the recognizer handle is released, as after a single stop.
C17_StopIsIdempotent ==
    /\ hSpeech.twice => ~hSpeech.raised /\ ~speechState.isRecording
    /\ (hSpeech.twice /\ CallsSettled) => speechState.recognizer = NoRecognizer

\* The mic control is disabled: speechBtn.disabled (static page),
\* :disabled="!speechEnabled" (Vue view).
MicDisabled == IF Static THEN speechUi.disabled ELSE ~speechState.speechEnabled

\* C21: a mic control that has been disabled is never enabled again.
C21_NeverReEnabled == [][MicDisabled => MicDisabled']_vars

\* ------------------------------------------------------------ the whole page
\* Chat, graph and speech on one page: the static page with the SDK present or
\* missing and the speech configuration usable or not, and the Vue view.
WholeInit ==
    /\ ChatInit /\ impl \in {"static", "vue"}
    /\ SpeechInitState
    /\ IF Static
       THEN /\ sdkEnv \in {NoSdk, [NoSdk EXCEPT !.hasGlobalSDK = TRUE]}
            /\ speechConfig \in {"ok", "error"}
            /\ tokenCalls = <<>>
       ELSE /\ sdkEnv = [NoSdk EXCEPT !.hasGlobalSDK = TRUE]
            /\ speechConfig = "ok"
            /\ tokenCalls = <<"mount">>

\* What the user types and what the backend answers on that page: an answer with
\* a query, an answer whose query is empty, a failed call.
WholeInputs == {<<" ", "a", " ">>}
WholeReplies ==
    { Reply("ok", "200", <<>>, <<"r">>, "t1", "q1"),
      Reply("ok", "200", <<>>, <<"r">>, "t1", ""),
      Reply("http", "500", <<>>, UndefText, UNDEF, UNDEF) }

WholeNext ==
    \/ \E t \in WholeInputs : TypeInput(t) /\ UNCHANGED speechVars
    \/ FormSubmit /\ UNCHANGED speechVars
    \/ ClearInput /\ UNCHANGED speechVars
    \/ AppendUser /\ UNCHANGED speechVars
    \/ SetProcessing /\ UNCHANGED speechVars
    \/ AddThinking /\ UNCHANGED speechVars
    \/ PostChat /\ UNCHANGED speechVars
    \/ \E i \in 1..Len(inflight), r \in WholeReplies : ChatReply(i, r) /\ UNCHANGED speechVars
    \/ \E ok \in BOOLEAN : InitRenderDone(ok) /\ UNCHANGED speechVars
    \/ VizResume /\ UNCHANGED speechVars
    \/ VueFlush /\ UNCHANGED speechVars
    \/ VueTick /\ UNCHANGED speechVars
    \/ SpeechDomReady
    \/ CheckTimer
    \/ GiveUpTimer
    \/ \E ctor \in {"ok", "throws"}, throws \in BOOLEAN : MicStart(ctor, throws)
    \/ \E throws \in BOOLEAN : MicStop(throws)
    \/ \E i \in 1..Len(tokenCalls), outcome \in {"token", "notoken", "reject"},
          ctor \in {"ok", "throws"}, throws \in BOOLEAN : TokenSettles(i, outcome, ctor, throws)
    \/ \E i \in 1..Len(sdkCalls), ok \in BOOLEAN, throws \in BOOLEAN :
          SdkCallSettles(i, ok, throws)

WholeSpec == WholeInit /\ [][WholeNext]_vars

\* Only the fallback script is loaded: the Microsoft namespace is its own.
OnlyMockLoaded == Static /\ sdkEnv.FromMock /\ ~sdkEnv.hasGlobalSDK

\* C22: with only the fallback script loaded, detection never marks the SDK as
\* loaded, never shows the ready status and never registers the click handler.
C22_MockIsAbsent ==
    OnlyMockLoaded => /\ ~speechState.sdkLoaded
                      /\ speechUi.status # StatusReady
                      /\ speechUi.listeners = 0

\* C23: once a failed start has been handled (the SDK check or the construction
\* threw, or the start-error callback fired) the session is not recording, the
\* recording indicator is off, and a mic control that was usable still is.
C23_FailedStartReturnsToIdle ==
    [][hSpeech'.failed => /\ ~speechState'.isRecording
                          /\ ~speechUi'.recording
                          /\ (MicEnabled => MicEnabled')]_vars

\* The start-error callback has fired on a session that was recording.
C23_Witness ==
    /\ hSpeech.failed /\ hSpeech.name = "startErr"
    /\ hEvent.name = "startErr"
    /\ ~speechState.isRecording /\ MicEnabled

\* HomeView's computed speechStatusText.
StatusVueUnavailable == "Service de reconnaissance vocale indisponible"
speechStatusText ==
    IF ~speechState.speechEnabled THEN StatusVueUnavailable
    ELSE IF speechState.isRecording THEN StatusListening
    ELSE StatusReady

\* The status line the user sees.
StatusLine == IF Static THEN speechUi.status ELSE speechStatusText

\* C24: once a failed start has been handled the status line shows an error
\* indication, not the ready text, and the chat log has not been touched.
C24_FailureShownInStatus ==
    hSpeech.failed => StatusLine # StatusReady /\ chatLog = <<>>

\* A stop call for the stored handle is outstanding.
StopOutstanding ==
    \E i \in 1..Len(sdkCalls) :
        sdkCalls[i].op = "stop" /\ sdkCalls[i].rec = speechState.recognizer

\* C25: stopping releases the recognizer handle in every outcome: after the success
\* or the error callback the handle is null, and after stopSpeechRecognition itself
\* the handle is null unless the stop call was accepted and its callback is awaited
\* (so a stop call that threw has released it).
C25_StopReleasesHandle ==
    /\ hSpeech.name \in {"stopOk", "stopErr"} => speechState.recognizer = NoRecognizer
    /\ hSpeech.name \in {"micStop", "destroy"}
           => speechState.recognizer = NoRecognizer \/ StopOutstanding

\* A start attempt's token request has just failed.
StartTokenFailed ==
    /\ Vue /\ hSpeech'.name = "token"
    /\ PendingStarts' < PendingStarts
    /\ ~speechState'.speechEnabled

\* C27: on the static page a mic press reaches startSpeechRecognition only after a
\* presence check has succeeded; a start attempt whose token request fails disables
\* the control, constructs no recognizer and does not enter Listening.
C27_StartNeedsSdkAndToken ==
    [][ /\ (Static /\ hSpeech'.name \in {"micStart", "micStop"}) => speechState.sdkLoaded
        /\ StartTokenFailed => /\ MicDisabled'
                               /\ recognizers' = recognizers
                               /\ sdkCalls' = sdkCalls
                               /\ speechState'.isRecording = speechState.isRecording
                               /\ speechState'.recognizer = speechState.recognizer ]_vars

\* A start attempt has ended disabled, nothing constructed, never listening.
C27_Witness ==
    /\ Vue /\ hSpeech.name = "token" /\ tokenCalls = <<>>
    /\ MicDisabled /\ recognizers = <<>> /\ ~speechState.isRecording
    /\ speechState.speechToken = NULL /\ hSpeech.lastOp = "start"

\* C28: a backend call is issued only as the last statement of an accepted submit,
\* one per submit; the handler that receives a reply, failed or not, issues none, and
\* nothing but a user's submit starts the handler.
C28_NoAutomaticRetry ==
    [][ /\ Len(inflight') > Len(inflight)
            => /\ pc = "post" /\ pc' = "idle"
               /\ inflight' = Append(inflight, Last(inflight'))
               /\ Last(inflight').message = Trim(hSubmit.raw)
               /\ turns' = turns + 1
        /\ (pc # "idle" /\ pc' = "idle") => Len(inflight') = Len(inflight) + 1
        /\ (pc = "idle" /\ pc' # "idle") => hEvent'.name \in {"submit", "suggestion"}
        /\ Handles("reply") => /\ Len(inflight') = Len(inflight) - 1
                               /\ pc' = "idle" /\ turns' = turns ]_vars

\* A call failed, no call is outstanding, and the user has not submitted again.
C28_Witness ==
    /\ Quiescent /\ hEvent.name = "reply" /\ Failed(Got)
    /\ inflight = <<>> /\ turns = 1 /\ Trim(userInput) # <<>>

\* new is old with zero or more elements appended.
Extends(new, old) == Len(old) <= Len(new) /\ SubSeq(new, 1, Len(old)) = old

\* The log's Messages as stored or drawn, the placeholder left out.
Messages == SelectSeq(chatLog, LAMBDA e : e.role # "thinking")

\* C30: every step leaves the Messages of the log in place, unchanged and in order,
\* and at most appends to them; the only element ever removed is the placeholder.
C30_AppendOnly ==
    [][ Extends(Log', Log) /\ Extends(Messages', Messages) ]_vars

\* Two turns are in the log and both placeholders have been removed.
C30_Witness ==
    /\ Static /\ Quiescent /\ turns = 2 /\ inflight = <<>>
    /\ Len(Messages) = 4 /\ Len(chatLog) = 4

\* No speech token is available: the static page's configuration has none (or an
\* error) and its DOMContentLoaded handler has run; the Vue view holds no token and
\* its mount-time request has settled.
NoToken ==
    IF Static THEN speechUi.domReady /\ speechConfig # "ok"
    ELSE speechState.speechToken = NULL /\ \A i \in 1..Len(tokenCalls) : tokenCalls[i] # "mount"

\* C26: without a token the mic control is disabled, the SDK is not polled, no
\* recognizer is constructed and nothing is recording; a submit is still accepted
\* whenever its text is not empty and no call is in flight.
C26_NoTokenSpeechOff ==
    [][ /\ NoToken' => /\ MicDisabled'
                       /\ timers'.checkIn < 0 /\ timers'.giveUpIn < 0
                       /\ ~speechState'.sdkLoaded
                       /\ recognizers' = <<>> /\ sdkCalls' = <<>>
                       /\ ~speechState'.isRecording
        /\ (NoToken /\ Handles("submit") /\ ~(Trim(userInput) = <<>> \/ isProcessing))
               => pc' = SubmitOrder[1] /\ hSubmit'.raw = userInput ]_vars

\* Without a token, a chat turn has been submitted and answered.
C26_Witness ==
    /\ NoToken /\ MicDisabled /\ Quiescent
    /\ hEvent.name = "reply" /\ Succeeded(Got) /\ Len(Log) = 2

\* A rendering error is on display; a speech error has occurred and stands.
VizError ==
    IF Static THEN vizPlaceholder = "error"
    ELSE visualizationError # NULL \/ neovis.error # NULL
SpeechError == MicDisabled \/ GaveUp \/ hSpeech.failed \/ hSpeech.raised

\* A step in which a speech error occurs: a failed start, a stop that raises or whose
\* error callback fires, a token failure or missing configuration, the give-up.
SpeechErrorStep ==
    /\ hSpeech' # hSpeech
    /\ \/ hSpeech'.failed \/ hSpeech'.raised
       \/ hSpeech'.name \in {"giveUp", "stopErr"}
       \/ MicDisabled' /\ ~MicDisabled

\* A step, other than the handling of a reply, in which a rendering error appears.
VizErrorStep == VizError' /\ ~VizError /\ Len(inflight') = Len(inflight)

\* C29: a step in which a rendering or a speech error occurs leaves the message log,
\* the thread id, the in-flight flag and the outstanding calls as they were; with
\* such an error standing a submit is accepted as usual, its call carries the
\* trimmed text and the stored thread id, and a successful reply is appended, its
\* thread id stored and the flag cleared, also when the render it requests fails.
C29_ErrorsLeaveChatAlone ==
    [][ /\ (SpeechErrorStep \/ VizErrorStep)
            => UNCHANGED <<chatLog, threadId, isProcessing, inflight, pc, turns, userInput>>
        /\ ((VizError \/ SpeechError) /\ Handles("submit")
                /\ ~(Trim(userInput) = <<>> \/ isProcessing))
            => pc' = SubmitOrder[1] /\ hSubmit' = [raw |-> userInput, log |-> Log]
        /\ ((VizError \/ SpeechError) /\ Len(inflight') > Len(inflight))
            => /\ Last(inflight').message = Trim(hSubmit.raw)
               /\ Last(inflight').thread_id = threadId
        /\ (Len(inflight') < Len(inflight) /\ Succeeded(Got'))
            => /\ Log' = Log \o <<[role |-> "assistant", content |-> Got'.response]>>
               /\ threadId' = Got'.thread_id
               /\ ~isProcessing' ]_vars

\* The render of the first reply's query failed (NeoVis is missing) and detection
\* has given up; a second turn has been submitted and answered since.
C29_Witness ==
    /\ Static /\ ~neoVisLoaded /\ hRequested = "q1" /\ GaveUp /\ MicDisabled /\ Quiescent
    /\ hEvent.name = "reply" /\ Succeeded(Got) /\ Got.cypher_query = ""
    /\ Len(Log) = 4 /\ ~isProcessing /\ threadId = "t1"

\* The reply runs the handler's try block up to the thread-id assignment: chat.js
\* needs a 2xx reply whose body has the response text, HomeView a resolved axios call.
StoresThreadId(r) == IF Static THEN Succeeded(r) ELSE ~AxiosRejects(r)
\* The thread id the handler reads from the reply.
ReturnedThreadId(r) == IF Static THEN r.thread_id ELSE VueData(r).thread_id

C32_SpeechWritesOnlyInput ==
    [][ /\ hSpeech'.name = "recognized" /\ hSpeech' # hSpeech
            => UNCHANGED <<speechState, speechUi, recognizers, sdkCalls, tokenCalls, timers,
                           chatLog, threadId, isProcessing, inflight, pc, turns,
                           staticVizVars, vueVizVars>>
        /\ (speechState.isRecording /\ ~speechState'.isRecording)
            => hSpeech'.name \in {"micStop", "destroy"} \/ hSpeech'.failed ]_vars

\* An utterance went into the buffer and the session is still recording.
C32_Witness ==
    /\ hSpeech.name = "recognized" /\ hSpeech.text = <<"bonjour">>
    /\ userInput = <<"bonjour">> /\ speechState.isRecording
    /\ recognizers[speechState.recognizer].state = "listening"

\* The recognizer constructed last has completed its start and is listening.
NewestListening ==
    recognizers # <<>> /\ recognizers[Len(recognizers)].state = "listening"

\* C33: whenever the session is recording and its recognizer, the one constructed
\* last, has completed its start, the stored handle is that recognizer: the stop
\* completion of an older recognizer has not cleared it.
C33_HandleIsTheListener ==
    (speechState.isRecording /\ NewestListening)
        => speechState.recognizer = Len(recognizers)

\* The recognizers that are listening and deliver text.
Listening == {r \in 1..Len(recognizers) : recognizers[r].state = "listening"}

\* C34: at most one recognizer is listening at any time; once the session shows
\* not-recording and no SDK callback is outstanding, none is.
C34_OneListener ==
    /\ Cardinality(Listening) <= 1
    /\ (~speechState.isRecording /\ sdkCalls = <<>> /\ tokenCalls = <<>>) => Listening = {}

\* C35: in the Vue view, while the session is recording the speech affordance is
\* enabled, so the mic control that stops the recording can be pressed.
C35_RecordingImpliesEnabled ==
    (Vue /\ speechState.isRecording) => speechState.speechEnabled

\* The Messages of the log with the given role.
OfRole(role) == SelectSeq(Log, LAMBDA m : m.role = role)

\* C36: the log alternates user, assistant, user, assistant, ... from a user
\* message on; between handlers the assistant messages are one fewer than the
\* user messages while a call is in flight and as many otherwise.
C36_LogAlternates ==
    /\ \A i \in 1..Len(Log) : Log[i].role = (IF i % 2 = 1 THEN "user" ELSE "assistant")
    /\ pc = "idle" =>
           Len(OfRole("assistant")) =
               Len(OfRole("user")) - (IF inflight # <<>> THEN 1 ELSE 0)

\* A second user message waits for its reply after the first got an error message.
C36_Witness ==
    /\ pc = "idle" /\ Len(inflight) = 1 /\ Len(Log) = 3
    /\ hEvent.name = "submit"
    /\ \E r \in FailReplies : Log[2].content \in {StaticErrorText(r), VueErrorText(r)}

\* C37: a suggestion activated while a chat call is in flight is dropped and
\* changes nothing; the input buffer keeps the unsent text it held.
C37_SuggestionInFlightKeepsInput ==
    [][ (Handles("suggestion") /\ isProcessing)
        => /\ pc' = "idle"
           /\ UNCHANGED <<userInput, chatLog, threadId, isProcessing, inflight>> ]_vars

\* A presence check has succeeded and the give-up timer has not fired.
DetectedInTime == Static /\ speechState.sdkLoaded /\ ~GaveUp

\* C39: once a presence check succeeds before the give-up deadline, the give-up
\* timer is no longer pending and never fires, no further check is scheduled, and
\* the click handler has been registered exactly once.
C39_SuccessEndsDetection ==
    /\ [](DetectedInTime =>
              timers.giveUpIn < 0 /\ timers.checkIn < 0 /\ speechUi.listeners = 1)
    /\ [][DetectedInTime => DetectedInTime']_vars

\* The SDK arrived while the page was polling, and a later check found it.
C39_Witness ==
    /\ DetectedInTime /\ hSpeech.name = "check"
    /\ speechUi.status = StatusReady /\ speechState.loadingTimeout = NULL

\* C40: while window.FromMock is set, a start attempt on the static page does not
\* enter Listening: the recording flag does not become true, no recognizer is
\* constructed, and the button is left not-recording, whether or not a real SDK
\* namespace is present.
C40_MockStartNeverListens ==
    [][ (Static /\ sdkEnv.FromMock /\ Handles("micStart") /\ ~speechState.isRecording)
        => /\ ~speechState'.isRecording
           /\ recognizers' = recognizers
           /\ ~speechUi'.recording ]_vars

\* The mic was pressed with the flag set next to the real SDK, and the start failed.
C40_Witness ==
    /\ Static /\ sdkEnv.FromMock /\ sdkEnv.hasGlobalSDK
    /\ hSpeech.name = "micStart" /\ hSpeech.failed
    /\ ~speechState.isRecording /\ ~speechUi.recording

====
